---- MODULE Spec2Model ----
(***************************************************************************)
(* Model of the statistics core of football-analyzer (src/analysis.py):    *)
(* name resolution, the last-N match filter, the MatchStats aggregation    *)
(* and analyze_team_from_df.                                               *)
(*                                                                         *)
(* A DataFrame of matches is a sequence of records in row order (the       *)
(* loaders sort it newest-first, so row 1 is the most recent match); the   *)
(* date column is only used for that sort and is represented by the        *)
(* position.  A team name is a sequence of characters, so that             *)
(* _normalize_team_name can be modelled character by character.            *)
(***************************************************************************)
EXTENDS Integers, Sequences, FiniteSets

(***************************************************************************)
(* Bounds of the model.                                                    *)
(***************************************************************************)
MaxMatches == 2
MaxGoals == 2

\* Largest window asked for: one more than the longest dataset.
MaxN == MaxMatches + 1

(***************************************************************************)
(* Characters and team names.  The twelve Turkish letters of tr_map are    *)
(* written with ASCII tokens.                                              *)
(***************************************************************************)
TrMap(c) ==
    CASE c = "c_cedilla" -> "c"
      [] c = "g_breve" -> "g"
      [] c = "i_dotless" -> "i"
      [] c = "o_diaeresis" -> "o"
      [] c = "s_cedilla" -> "s"
      [] c = "u_diaeresis" -> "u"
      [] c = "C_cedilla" -> "C"
      [] c = "G_breve" -> "G"
      [] c = "I_dotted" -> "I"
      [] c = "O_diaeresis" -> "O"
      [] c = "S_cedilla" -> "S"
      [] c = "U_diaeresis" -> "U"
      [] OTHER -> c

UpperCase == <<"A", "B", "C", "D", "E", "F", "G", "H", "I", "J", "K", "L", "M",
               "N", "O", "P", "Q", "R", "S", "T", "U", "V", "W", "X", "Y", "Z">>
LowerCase == <<"a", "b", "c", "d", "e", "f", "g", "h", "i", "j", "k", "l", "m",
               "n", "o", "p", "q", "r", "s", "t", "u", "v", "w", "x", "y", "z">>

\* str.lower() on the characters left after the tr_map replacements.
Lower(c) ==
    IF \E i \in 1..Len(UpperCase) : UpperCase[i] = c
    THEN LowerCase[CHOOSE i \in 1..Len(UpperCase) : UpperCase[i] = c]
    ELSE c

\* _normalize_team_name: replace the Turkish letters, then lower-case.
NormalizeTeamName(name) == [i \in 1..Len(name) |-> Lower(TrMap(name[i]))]

Goz == <<"G", "o_diaeresis", "z">>
GozAscii == <<"G", "o", "z">>
Van == <<"V", "a", "n">>
gozLower == <<"g", "o", "z">>
Ordu == <<"O", "r", "d", "u">>

\* Names that occur in the datasets, and the names a caller asks for.
TeamNames == {Goz, GozAscii, Van}
Queries == {Goz, gozLower, Van, Ordu}

(***************************************************************************)
(* Values.                                                                 *)
(***************************************************************************)
None == [kind |-> "None"]
NotCalled == [kind |-> "NotCalled"]
Str(name) == [kind |-> "str", val |-> name]

MatchRecord(h, a, hg, ag) ==
    [home_team |-> h, away_team |-> a, home_goals |-> hg, away_goals |-> ag]

MatchStats(p, w, d, l, fp, gf, ga, o, b) ==
    [played |-> p, wins |-> w, draws |-> d, losses |-> l, form_points |-> fp,
     goals_for |-> gf, goals_against |-> ga, over_25_count |-> o, btts_count |-> b]

TeamAnalysis(name, total, home, away, matches) ==
    [kind |-> "TeamAnalysis", team_name |-> name, total |-> total, home |-> home,
     away |-> away, matches_df |-> matches]

(***************************************************************************)
(* pandas helpers.                                                         *)
(***************************************************************************)
RECURSIVE SumSeq(_)
SumSeq(s) == IF s = <<>> THEN 0 ELSE Head(s) + SumSeq(Tail(s))

RECURSIVE Filter(_, _)
\* df[mask]: the rows whose mask entry is TRUE, in row order.
Filter(d, mask) ==
    IF d = <<>> THEN <<>>
    ELSE (IF Head(mask) THEN <<Head(d)>> ELSE <<>>) \o Filter(Tail(d), Tail(mask))

\* DataFrame.tail(n) in the place of head(n): the last n rows.
TailRows(d, n) == IF n >= Len(d) THEN d ELSE SubSeq(d, Len(d) - n + 1, Len(d))

\* DataFrame.head(n) for n >= 0.
HeadRows(d, n) == IF n >= Len(d) THEN d ELSE SubSeq(d, 1, n)

\* Series.sum() of a boolean mask.
CountTrue(mask) == SumSeq([i \in 1..Len(mask) |-> IF mask[i] THEN 1 ELSE 0])

(***************************************************************************)
(* _calculate_stats (src/analysis.py:91-156).                              *)
(***************************************************************************)
\* is_home = df["home_team"] == team
IsHomeMask(d, team) == [i \in 1..Len(d) |-> d[i].home_team = team]
NotMask(mask) == [i \in 1..Len(mask) |-> ~mask[i]]

HomeGoalsCol(d) == [i \in 1..Len(d) |-> d[i].home_goals]
AwayGoalsCol(d) == [i \in 1..Len(d) |-> d[i].away_goals]

\* GoalsFor with the away rows forgotten: the home column summed over every row.
GoalsForHomeColumn(d, team) == SumSeq(HomeGoalsCol(d))

\* df.loc[is_home, "home_goals"].sum() + df.loc[~is_home, "away_goals"].sum()
GoalsFor(d, team) ==
    SumSeq(Filter(HomeGoalsCol(d), IsHomeMask(d, team)))
    + SumSeq(Filter(AwayGoalsCol(d), NotMask(IsHomeMask(d, team))))

\* GoalsAgainst with a sign slip: the second sum subtracted.
GoalsAgainstMinus(d, team) ==
    SumSeq(Filter(AwayGoalsCol(d), IsHomeMask(d, team)))
    - SumSeq(Filter(HomeGoalsCol(d), NotMask(IsHomeMask(d, team))))

\* df.loc[is_home, "away_goals"].sum() + df.loc[~is_home, "home_goals"].sum()
GoalsAgainst(d, team) ==
    SumSeq(Filter(AwayGoalsCol(d), IsHomeMask(d, team)))
    + SumSeq(Filter(HomeGoalsCol(d), NotMask(IsHomeMask(d, team))))

\* RowResult with the final else guarded by a truthiness test: a goalless draw
\* is counted nowhere.
RowResultGoallessLost(row, team) ==
    LET hg == IF row.home_team = team THEN row.home_goals ELSE row.away_goals
        ag == IF row.home_team = team THEN row.away_goals ELSE row.home_goals
    IN  IF hg > ag THEN "win" ELSE IF hg < ag THEN "loss"
        ELSE IF hg > 0 THEN "draw" ELSE "none"

\* One pass of the iterrows() loop: the row's result for the team.
RowResult(row, team) ==
    LET hg == IF row.home_team = team THEN row.home_goals ELSE row.away_goals
        ag == IF row.home_team = team THEN row.away_goals ELSE row.home_goals
    IN  IF hg > ag THEN "win" ELSE IF hg < ag THEN "loss" ELSE "draw"

RECURSIVE CountResults(_, _, _)
\* The iterrows() loop: number of rows with the given result.
CountResults(d, team, res) ==
    IF d = <<>> THEN 0
    ELSE (IF RowResult(Head(d), team) = res THEN 1 ELSE 0)
         + CountResults(Tail(d), team, res)

\* Over25Count with the comparison off by one: total_goals >= 2.
Over25CountFromTwo(d) ==
    CountTrue([i \in 1..Len(d) |-> d[i].home_goals + d[i].away_goals >= 2])

\* (total_goals > 2).sum()
Over25Count(d) ==
    CountTrue([i \in 1..Len(d) |-> d[i].home_goals + d[i].away_goals > 2])

\* BttsCount restricted to the rows where the team is at home.
BttsCountAtHome(d, team) ==
    CountTrue([i \in 1..Len(d) |->
        d[i].home_team = team /\ d[i].home_goals > 0 /\ d[i].away_goals > 0])

\* ((df["home_goals"] > 0) & (df["away_goals"] > 0)).sum()
BttsCount(d, team) ==
    CountTrue([i \in 1..Len(d) |-> d[i].home_goals > 0 /\ d[i].away_goals > 0])

CalculateStats(d, team) ==
    IF d = <<>> THEN MatchStats(0, 0, 0, 0, 0, 0, 0, 0, 0)
    ELSE LET wins == CountResults(d, team, "win")
             draws == CountResults(d, team, "draw")
             losses == CountResults(d, team, "loss")
         IN  MatchStats(Len(d), wins, draws, losses,
                        wins * 3 + draws * 1 + losses * 0,
                        GoalsFor(d, team), GoalsAgainst(d, team),
                        Over25Count(d), BttsCount(d, team))

(***************************************************************************)
(* _resolve_team_name (src/analysis.py:61-68).                             *)
(***************************************************************************)
\* set(df["home_team"].unique()) | set(df["away_team"].unique())
AllTeams(d) ==
    {d[i].home_team : i \in 1..Len(d)} \cup {d[i].away_team : i \in 1..Len(d)}

\* The test with the candidate normalized on both sides of the comparison.
NameMatchesItself(t, team) ==
    t = team \/ NormalizeTeamName(t) = NormalizeTeamName(t)

\* The test of the loop body.
NameMatches(t, team) ==
    t = team \/ NormalizeTeamName(t) = NormalizeTeamName(team)

\* The loop returns the first name of all_teams that passes the test.  all_teams
\* is a Python set of str: its iteration order depends on the interpreter's
\* string hashing, so the first match may be any of the names that match.
ResolveTeamName(d, team) ==
    LET hits == {t \in AllTeams(d) : NameMatches(t, team)}
    IN  IF hits = {} THEN {None} ELSE {Str(t) : t \in hits}

(***************************************************************************)
(* get_team_matches (src/analysis.py:71-88).                               *)
(***************************************************************************)
\* (df["home_team"] == resolved) | (df["away_team"] == resolved)
InvolvesMask(d, resolved) ==
    [i \in 1..Len(d) |-> d[i].home_team = resolved \/ d[i].away_team = resolved]

\* The DataFrame returned when _resolve_team_name returned r.
GetTeamMatches(d, r, n) ==
    IF r = None THEN <<>> ELSE HeadRows(Filter(d, InvolvesMask(d, r.val)), n)

(***************************************************************************)
(* analyze_team_from_df (src/analysis.py:159-198).                         *)
(***************************************************************************)
\* team_df[team_df["home_team"] == resolved]
HomeDf(team_df, resolved) == Filter(team_df, IsHomeMask(team_df, resolved))

\* team_df[team_df["away_team"] == resolved]
AwayDf(team_df, resolved) ==
    Filter(team_df, [i \in 1..Len(team_df) |-> team_df[i].away_team = resolved])

\* The resolution with the exact_match flag ignored.
ResolvedIgnoringExact(d, team, exact) == ResolveTeamName(d, team)

\* resolved = team if exact_match else _resolve_team_name(df, team)
Resolved(d, team, exact) == IF exact THEN {Str(team)} ELSE ResolveTeamName(d, team)

\* analyze_team_from_df without the team_df.empty test.
AnalyzeWithoutEmptyTest(d, r, n) ==
    IF d = <<>> THEN None
    ELSE IF r = None THEN None
    ELSE LET team_df == HeadRows(Filter(d, InvolvesMask(d, r.val)), n)
         IN  TeamAnalysis(r.val,
                          CalculateStats(team_df, r.val),
                          CalculateStats(HomeDf(team_df, r.val), r.val),
                          CalculateStats(AwayDf(team_df, r.val), r.val),
                          team_df)

\* The value returned when the name resolution gave r.
AnalyzeTeamFromDf(d, r, n) ==
    IF d = <<>> THEN None
    ELSE IF r = None THEN None
    ELSE LET team_df == HeadRows(Filter(d, InvolvesMask(d, r.val)), n)
         IN  IF team_df = <<>> THEN None
             ELSE TeamAnalysis(r.val,
                               CalculateStats(team_df, r.val),
                               CalculateStats(HomeDf(team_df, r.val), r.val),
                               CalculateStats(AwayDf(team_df, r.val), r.val),
                               team_df)

(***************************************************************************)
(* Python float arithmetic (IEEE 754 binary64, round to nearest, ties to   *)
(* even) on the values generate_match_comment and predict_summary compute: *)
(* quotients of two counts, their products with 100, sums of two of them   *)
(* and halves.  A float x is held exactly as the integer x * 2^60, written *)
(* with five limbs of 15 bits, least significant first; every float of     *)
(* magnitude between 2^-6 and 2^8 is such an integer.                      *)
(***************************************************************************)
MantissaBits == 53
LimbBits == 15
LimbBase == 2^LimbBits

FloatZero == <<0, 0, 0, 0, 0>>

\* Limbs that have grown beyond the base, brought back into range.
Carry(n) ==
    LET v2 == n[2] + (n[1] \div LimbBase)
        v3 == n[3] + (v2 \div LimbBase)
        v4 == n[4] + (v3 \div LimbBase)
        v5 == n[5] + (v4 \div LimbBase)
    IN  <<n[1] % LimbBase, v2 % LimbBase, v3 % LimbBase, v4 % LimbBase, v5>>

\* Number of significant bits of the integer n # 0.
BitLength(n) ==
    LET top == CHOOSE i \in 1..5 : n[i] # 0 /\ \A j \in (i + 1)..5 : n[j] = 0
        bits == CHOOSE k \in 1..LimbBits : 2^(k - 1) <= n[top] /\ n[top] < 2^k
    IN  LimbBits * (top - 1) + bits

\* The float nearest to the exact value n (plus a nonzero remainder below the
\* last bit when sticky): the bits beyond the 53 of the mantissa are rounded
\* away, a tie going to the even mantissa.
RoundToFloat(n, sticky) ==
    IF n = FloatZero THEN n
    ELSE LET d == BitLength(n) - MantissaBits
         IN  IF d <= 0 THEN n
             ELSE LET unit == 2^d
                      low == n[1] % unit
                      half == unit \div 2
                      odd == IF d < LimbBits THEN (n[1] \div unit) % 2 = 1
                                             ELSE n[2] % 2 = 1
                      up == low > half \/ (low = half /\ (sticky \/ odd))
                  IN  Carry(<<n[1] - low + (IF up THEN unit ELSE 0),
                              n[2], n[3], n[4], n[5]>>)

\* a / b for two ints (true division, correctly rounded).
FloatDiv(a, b) ==
    LET q5 == a \div b
        r5 == a % b
        q4 == (r5 * LimbBase) \div b
        r4 == (r5 * LimbBase) % b
        q3 == (r4 * LimbBase) \div b
        r3 == (r4 * LimbBase) % b
        q2 == (r3 * LimbBase) \div b
        r2 == (r3 * LimbBase) % b
        q1 == (r2 * LimbBase) \div b
        r1 == (r2 * LimbBase) % b
    IN  RoundToFloat(<<q1, q2, q3, q4, q5>>, r1 # 0)

\* x * k for a float x and an int k.
FloatMulInt(x, k) ==
    RoundToFloat(Carry(<<x[1] * k, x[2] * k, x[3] * k, x[4] * k, x[5] * k>>), FALSE)

\* x + y
FloatAdd(x, y) ==
    RoundToFloat(Carry(<<x[1] + y[1], x[2] + y[2], x[3] + y[3], x[4] + y[4],
                         x[5] + y[5]>>), FALSE)

\* x / 2 (exact: the last bits of a float of this range are 0).
FloatHalf(x) ==
    LET v4 == x[4] + (x[5] % 2) * LimbBase
        v3 == x[3] + (v4 % 2) * LimbBase
        v2 == x[2] + (v3 % 2) * LimbBase
        v1 == x[1] + (v2 % 2) * LimbBase
    IN  <<v1 \div 2, v2 \div 2, v3 \div 2, v4 \div 2, x[5] \div 2>>

\* x < y
FloatLess(x, y) ==
    \E i \in 1..5 : x[i] < y[i] /\ \A j \in (i + 1)..5 : x[j] = y[j]

\* x >= y
FloatGE(x, y) == ~FloatLess(x, y)

\* The float of an int literal.
FloatOfInt(k) == <<0, 0, 0, 0, k>>

\* The float of a decimal literal num / den of the source.
FloatLiteral(num, den) == FloatDiv(num, den)

(***************************************************************************)
(* Texts.  A Python str built from parts is the sequence of its parts; the *)
(* Turkish texts are written without diacritics; a team name is, as in the *)
(* name resolution, the sequence of its letters.  A justification          *)
(* (gerekce) is its template with the values formatted into it, the        *)
(* number formatting itself left out.                                      *)
(***************************************************************************)
\* ". ".join(parts)
JoinDot(parts) ==
    [i \in 1..(2 * Len(parts) - 1) |-> IF i % 2 = 1 THEN parts[(i + 1) \div 2] ELSE ". "]

Gerekce(text, args) == [text |-> text, args |-> args]

Abs(x) == IF x < 0 THEN -x ELSE x

\* Thresholds of generate_match_comment.
CommentBttsPct == 60
CommentFormGap == 6
CommentOverPct == 50

\* Thresholds of predict_summary.
BttsHighPct == 60
BttsMediumPct == 45
OverHighPct == 55
OverMediumPct == 40
FormLead == 6
SmallSample == 5

(***************************************************************************)
(* generate_match_comment (src/analysis.py:221-262).                       *)
(***************************************************************************)
\* stats.goals_for / stats.played
GoalsAvg(s) == FloatDiv(s.goals_for, s.played)

\* stats.goals_against / stats.played
GoalsAgainstAvg(s) == FloatDiv(s.goals_against, s.played)

\* (stats.btts_count / stats.played) * 100
BttsPct(s) == FloatMulInt(FloatDiv(s.btts_count, s.played), 100)

\* (stats.over_25_count / stats.played) * 100
OverPct(s) == FloatMulInt(FloatDiv(s.over_25_count, s.played), 100)
\* avg1 > 1.5 and avg2 > 1.5
CommentGoalsRuleStrict(s1, s2) ==
    /\ FloatLess(FloatLiteral(15, 10), GoalsAvg(s1))
    /\ FloatLess(FloatLiteral(15, 10), GoalsAvg(s2))

\* avg1 >= 1.5 and avg2 >= 1.5
CommentGoalsRule(s1, s2) ==
    /\ FloatGE(GoalsAvg(s1), FloatLiteral(15, 10))
    /\ FloatGE(GoalsAvg(s2), FloatLiteral(15, 10))

\* btts1 >= 60 and btts2 >= 60
CommentBttsRule(s1, s2) ==
    /\ FloatGE(BttsPct(s1), FloatOfInt(CommentBttsPct))
    /\ FloatGE(BttsPct(s2), FloatOfInt(CommentBttsPct))
\* team1_stats.form_points - team2_stats.form_points >= 6, without abs
CommentFormRuleSigned(s1, s2) == s1.form_points - s2.form_points >= CommentFormGap

\* diff >= 6
CommentFormRule(s1, s2) == Abs(s1.form_points - s2.form_points) >= CommentFormGap

\* over1 >= 50 and over2 >= 50
CommentOverRule(s1, s2) ==
    /\ FloatGE(OverPct(s1), FloatOfInt(CommentOverPct))
    /\ FloatGE(OverPct(s2), FloatOfInt(CommentOverPct))

\* The list comments after the four tests.
Comments(s1, s2) ==
    (IF CommentGoalsRule(s1, s2) THEN <<"Gollu mac egilimi">> ELSE <<>>)
    \o (IF CommentBttsRule(s1, s2) THEN <<"Iki takim da gol bulabilir">> ELSE <<>>)
    \o (IF CommentFormRule(s1, s2) THEN <<"Formda takim avantajli">> ELSE <<>>)
    \o (IF CommentOverRule(s1, s2) THEN <<"Over egilimi">> ELSE <<>>)

GenerateMatchComment(s1, s2) ==
    IF s1.played = 0 \/ s2.played = 0 THEN <<"Yeterli veri yok.">>
    ELSE IF Comments(s1, s2) = <<>> THEN <<"Belirgin bir egilim gorunmuyor.">>
    ELSE JoinDot(Comments(s1, s2)) \o <<".">>

(***************************************************************************)
(* predict_summary (src/analysis.py:265-345).                              *)
(***************************************************************************)
\* (btts1 + btts2) / 2
BttsAvg(s1, s2) == FloatHalf(FloatAdd(BttsPct(s1), BttsPct(s2)))

\* over_avg = (over1 + over2) / 2
OverAvg(s1, s2) == FloatHalf(FloatAdd(OverPct(s1), OverPct(s2)))

\* toplam_gol_avg = goals_avg1 + goals_avg2
ToplamGolAvg(s1, s2) == FloatAdd(GoalsAvg(s1), GoalsAvg(s2))

\* btts_level, btts_gerekce
BttsMarket(s1, s2) ==
    IF /\ FloatGE(BttsPct(s1), FloatOfInt(BttsHighPct))
       /\ FloatGE(BttsPct(s2), FloatOfInt(BttsHighPct))
    THEN [level |-> "Yuksek",
          gerekce |-> Gerekce("Her iki takim BTTS orani yuksek",
                              <<BttsPct(s1), BttsPct(s2)>>)]
    ELSE IF FloatGE(BttsAvg(s1, s2), FloatOfInt(BttsMediumPct))
    THEN [level |-> "Orta", gerekce |-> Gerekce("Ortalama BTTS", <<BttsAvg(s1, s2)>>)]
    ELSE [level |-> "Dusuk",
          gerekce |-> Gerekce("Dusuk BTTS egilimi", <<BttsPct(s1), BttsPct(s2)>>)]

\* over_level, over_gerekce
OverMarket(s1, s2) ==
    IF FloatGE(OverAvg(s1, s2), FloatOfInt(OverHighPct))
    THEN [level |-> "Yuksek",
          gerekce |-> Gerekce("Ortalama Over 2.5 orani", <<OverAvg(s1, s2)>>)]
    ELSE IF FloatGE(OverAvg(s1, s2), FloatOfInt(OverMediumPct))
    THEN [level |-> "Orta", gerekce |-> Gerekce("Ortalama Over 2.5", <<OverAvg(s1, s2)>>)]
    ELSE [level |-> "Dusuk",
          gerekce |-> Gerekce("Dusuk gol ortalamasi", <<OverAvg(s1, s2)>>)]

\* gollu_level, gollu_gerekce
GolluMarket(s1, s2) ==
    IF FloatGE(ToplamGolAvg(s1, s2), FloatLiteral(28, 10))
    THEN [level |-> "Yuksek",
          gerekce |-> Gerekce("Mac basi ortalama gol beklentisi", <<ToplamGolAvg(s1, s2)>>)]
    ELSE IF FloatGE(ToplamGolAvg(s1, s2), FloatLiteral(22, 10))
    THEN [level |-> "Orta",
          gerekce |-> Gerekce("Toplam gol ortalamasi", <<ToplamGolAvg(s1, s2)>>)]
    ELSE [level |-> "Dusuk",
          gerekce |-> Gerekce("Dusuk gol egilimi", <<ToplamGolAvg(s1, s2)>>)]
\* The outcome lean with a lead of more than FormLead points.
EgilimStrictLead(s1, s2, name1, name2) ==
    LET form_diff == s1.form_points - s2.form_points
    IN  IF form_diff > FormLead
        THEN [sonuc |-> name1, gerekce |-> Gerekce("puan onde", <<name1, form_diff>>)]
        ELSE IF form_diff < -FormLead
        THEN [sonuc |-> name2, gerekce |-> Gerekce("puan onde", <<name2, -form_diff>>)]
        ELSE [sonuc |-> <<"Dengeli">>, gerekce |-> Gerekce("Form puanlari yakin", <<>>)]

\* egilim_sonuc, egilim_gerekce
Egilim(s1, s2, name1, name2) ==
    LET form_diff == s1.form_points - s2.form_points
    IN  IF form_diff >= FormLead
        THEN [sonuc |-> name1, gerekce |-> Gerekce("puan onde", <<name1, form_diff>>)]
        ELSE IF form_diff <= -FormLead
        THEN [sonuc |-> name2, gerekce |-> Gerekce("puan onde", <<name2, -form_diff>>)]
        ELSE [sonuc |-> <<"Dengeli">>, gerekce |-> Gerekce("Form puanlari yakin", <<>>)]
\* goals_against_avg1 >= 1.3 or goals_against_avg2 >= 1.3
FragileDefenseOfEither(s1, s2) ==
    \/ FloatGE(GoalsAgainstAvg(s1), FloatLiteral(13, 10))
    \/ FloatGE(GoalsAgainstAvg(s2), FloatLiteral(13, 10))

\* goals_against_avg1 >= 1.3 and goals_against_avg2 >= 1.3
FragileDefenses(s1, s2) ==
    /\ FloatGE(GoalsAgainstAvg(s1), FloatLiteral(13, 10))
    /\ FloatGE(GoalsAgainstAvg(s2), FloatLiteral(13, 10))
\* team1_stats.played < 5 and team2_stats.played < 5
SmallSampleOfBoth(s1, s2) == s1.played < SmallSample /\ s2.played < SmallSample

\* team1_stats.played < 5 or team2_stats.played < 5
SmallSampleSize(s1, s2) == s1.played < SmallSample \/ s2.played < SmallSample

\* The list riskler after the two tests.
Riskler(s1, s2) ==
    (IF FragileDefenses(s1, s2) THEN <<"Savunmalar kirilgan">> ELSE <<>>)
    \o (IF SmallSampleSize(s1, s2) THEN <<"Orneklem kucuk, veri sinirli">> ELSE <<>>)

\* risk_notu = ". ".join(riskler) if riskler else None
RiskNotu(s1, s2) ==
    IF Riskler(s1, s2) # <<>> THEN Str(JoinDot(Riskler(s1, s2))) ELSE None

\* The exception of a division by a played count of 0.
ZeroDivisionError == [kind |-> "ZeroDivisionError"]

\* The body of predict_summary after the test of the played counts.
PredictWithData(s1, s2, name1, name2) ==
    IF s1.played = 0 \/ s2.played = 0 THEN ZeroDivisionError
    ELSE [btts |-> BttsMarket(s1, s2),
          over25 |-> OverMarket(s1, s2),
          gollu_mac |-> GolluMarket(s1, s2),
          egilim_1x2 |-> Egilim(s1, s2, name1, name2),
          risk_notu |-> RiskNotu(s1, s2)]

\* The dict returned when a team has no match.
NoDataSummary ==
    [btts |-> [level |-> "-", gerekce |-> Gerekce("Yeterli veri yok", <<>>)],
     over25 |-> [level |-> "-", gerekce |-> Gerekce("Yeterli veri yok", <<>>)],
     gollu_mac |-> [level |-> "-", gerekce |-> Gerekce("Yeterli veri yok", <<>>)],
     egilim_1x2 |-> [sonuc |-> <<"-">>, gerekce |-> Gerekce("Yeterli veri yok", <<>>)],
     risk_notu |-> Str(<<"Veri yetersiz.">>)]

\* predict_summary testing the first team's played count only
PredictSummaryTestingTeam1(s1, s2, name1, name2) ==
    IF s1.played = 0 THEN NoDataSummary
    ELSE PredictWithData(s1, s2, name1, name2)

PredictSummary(s1, s2, name1, name2) ==
    IF s1.played = 0 \/ s2.played = 0 THEN NoDataSummary
    ELSE PredictWithData(s1, s2, name1, name2)

(***************************************************************************)
(* APIClient (src/api_client.py).  A dict of request parameters is the     *)
(* sequence of its items in insertion order; a JSON body is a record with  *)
(* its kind; the clock is read in seconds.                                 *)
(***************************************************************************)
CACHE_TTL == 60

Dict(items) == [kind |-> "dict", items |-> items]

\* params or {}
ItemsOf(params) == IF params = None THEN <<>> ELSE params.items

\* The parameter names of the API in str order.
ParamNames == <<"id", "league", "search", "season", "status", "team">>

\* sorted(items): the items by name (the names of a dict are distinct).
SortedItems(items) ==
    LET present == SelectSeq(ParamNames, LAMBDA n : \E i \in 1..Len(items) : items[i][1] = n)
        ItemOf(n) == items[CHOOSE i \in 1..Len(items) : items[i][1] = n]
    IN  [j \in 1..Len(present) |-> ItemOf(present[j])]

\* cache_key = f"{endpoint}:{sorted((params or {}).items())}"
CacheKey(endpoint, params) == <<endpoint, ":", SortedItems(ItemsOf(params))>>

APIError(message) == [kind |-> "APIError", message |-> message]
AttributeError == [kind |-> "AttributeError"]
Return(value) == [kind |-> "return", value |-> value]

\* What session.get does: an exception of requests, or a response.
Timeout == [kind |-> "Timeout"]
ConnectionError == [kind |-> "ConnectionError"]
Response(status_code, body) ==
    [kind |-> "Response", status_code |-> status_code, body |-> body]

\* Bodies: not JSON, a JSON array, a JSON object with its "errors" member
\* (Missing when it has none) and its "response" member.
NotJson == [kind |-> "text"]
JsonArray == [kind |-> "list"]
Missing == [kind |-> "missing"]
EmptyList == [kind |-> "list", items |-> <<>>]
ErrorsDict(message) == [kind |-> "dict", message |-> message]
JsonObject(errors, response) == [kind |-> "dict", errors |-> errors, response |-> response]

\* str(msg).lower() of the words of a message
LowerWord(w) ==
    CASE w = "Rate" -> "rate"
      [] w = "Limit" -> "limit"
      [] OTHER -> w

\* "rate" in str(msg).lower() or "limit" in str(msg).lower()
MentionsRateLimit(msg) ==
    \E i \in 1..Len(msg) : LowerWord(msg[i]) \in {"rate", "limit"}

\* The checks of a reply: the exception raised, or the data returned.
Outcome(reply) ==
    CASE reply.kind = "Timeout" -> APIError("API yanit vermedi (timeout)")
      [] reply.kind = "ConnectionError" -> APIError("API'ye baglanilamadi")
      [] OTHER ->
         IF reply.status_code = 429 THEN APIError("API rate limit asildi")
         ELSE IF reply.status_code >= 500 THEN APIError("API sunucu hatasi")
         ELSE IF reply.status_code # 200 THEN APIError("API hatasi: HTTP")
         ELSE IF reply.body.kind = "text" THEN APIError("API gecersiz JSON dondurdu")
         ELSE IF reply.body.kind = "list" THEN AttributeError
         ELSE IF reply.body.errors.kind = "dict"
              THEN IF MentionsRateLimit(reply.body.errors.message)
                   THEN APIError("API rate limit asildi. Lutfen bekleyin")
                   ELSE APIError("API hatasi")
         ELSE Return(reply.body)

\* time.time() - ts <= CACHE_TTL
FreshInclusive(ts, clock) == clock - ts <= CACHE_TTL

\* time.time() - ts < CACHE_TTL
Fresh(ts, clock) == clock - ts < CACHE_TTL

\* self._cache[cache_key] = (ts, data)
Put(cache, key, ts, data) ==
    [k \in (DOMAIN cache) \cup {key} |->
        IF k = key THEN [ts |-> ts, data |-> data] ELSE cache[k]]

\* _request(endpoint, params, use_cache) on the cache `cache`, started at
\* `clock`, with the reply the network gives after `latency` seconds: the new
\* cache, what the call returns or raises, whether the network was asked, and
\* the clock when the call ends.
Request(cache, clock, endpoint, params, use_cache, reply, latency) ==
    LET cache_key == CacheKey(endpoint, params)
    IN  IF /\ use_cache
           /\ cache_key \in DOMAIN cache
           /\ Fresh(cache[cache_key].ts, clock)
        THEN [cache |-> cache, outcome |-> Return(cache[cache_key].data),
              network |-> FALSE, clock |-> clock]
        ELSE [cache |-> IF use_cache /\ Outcome(reply).kind = "return"
                        THEN Put(cache, cache_key, clock + latency, Outcome(reply).value)
                        ELSE cache,
              outcome |-> Outcome(reply), network |-> TRUE, clock |-> clock + latency]

\* fixtures.sort(key=date, reverse=True), on a list of dates
RECURSIVE SortDescending(_)
SortDescending(s) ==
    IF s = <<>> THEN <<>>
    ELSE LET m == CHOOSE i \in 1..Len(s) :
                      /\ \A j \in 1..Len(s) : s[j] <= s[i]
                      /\ \A j \in 1..(i - 1) : s[j] < s[i]
         IN  <<s[m]>> \o SortDescending([j \in 1..(Len(s) - 1) |->
                                            IF j < m THEN s[j] ELSE s[j + 1]])

\* The parameters get_team_fixtures sends.
FixturesParams(team_id, league_id, season) ==
    Dict(<<<<"team", team_id>>, <<"league", league_id>>, <<"season", season>>,
           <<"status", "FT">>>>)

\* get_team_fixtures(team_id, league_id, season, last_n): the step of _request
\* with the outcome replaced, when it returns, by the fixtures list.
GetTeamFixtures(cache, clock, team_id, league_id, season, n, reply, latency) ==
    LET r == Request(cache, clock, "fixtures", FixturesParams(team_id, league_id, season),
                     FALSE, reply, latency)
    IN  IF r.outcome.kind # "return" THEN r
        ELSE [r EXCEPT !.outcome =
                 Return(HeadRows(SortDescending(r.outcome.value.response), n))]

(***************************************************************************)
(* State: one request against a loaded dataset.                            *)
(*   df, team, last_n, exact_match   the arguments of the request          *)
(*   op              the function that has been called ("none" before)     *)
(*   resolved        the return value of _resolve_team_name                *)
(*   team_matches    the return value of get_team_matches                  *)
(*   analysis        the return value of the latest analyze_team_from_df   *)
(*   prev_analysis   the return value of the call before it                *)
(*   stats           the return value of _calculate_stats                  *)
(* and, for the two functions that compare two teams,                      *)
(*   team1_stats, team2_stats   their MatchStats arguments                 *)
(*   match_comment   the return value of generate_match_comment            *)
(*   prediction      the return value of predict_summary                   *)
(*   swapped_comment, swapped_prediction   the return values of the same   *)
(*                   calls with the two teams exchanged                    *)
(* and, for the API client,                                                *)
(*   clock           the time time.time() gives, in seconds                *)
(*   cache           self._cache: cache key -> (ts, data)                  *)
(*   call            the latest call: its function and arguments, the time *)
(*                   it started at, the reply of the network (None when    *)
(*                   the network was not asked) and what it returned or    *)
(*                   raised                                                *)
(*   cache_before    self._cache when that call started                    *)
(***************************************************************************)
VARIABLES df, team, last_n, exact_match, op, resolved, team_matches,
          analysis, prev_analysis, stats,
          team1_stats, team2_stats, match_comment, prediction,
          swapped_comment, swapped_prediction,
          clock, cache, call, cache_before

summary_vars ==
    <<team1_stats, team2_stats, match_comment, prediction, swapped_comment,
      swapped_prediction>>

client_vars == <<clock, cache, call, cache_before>>

vars == <<df, team, last_n, exact_match, op, resolved, team_matches,
          analysis, prev_analysis, stats, summary_vars, client_vars>>

SeqsUpTo(S, n) == UNION {[1..k -> S] : k \in 0..n}

\* Datasets of the analysis requests: every pairing of the dataset's names
\* (a row with the same name on both sides included: the loaders do not
\* validate rows, and fixtures_to_df gives "" to both sides when the names
\* are missing).  The requests never branch on the goals, so these rows carry
\* one score; the aggregation is exercised over every score in StatsSpec.
Scorelines == {<<2, 1>>}
Records ==
    {MatchRecord(h, a, sc[1], sc[2]) : h \in TeamNames, a \in TeamNames, sc \in Scorelines}

\* Datasets of the direct _calculate_stats calls: every score up to MaxGoals.
StatsTeams == {Goz, Van}
StatsRecords ==
    {MatchRecord(h, a, hg, ag) :
        h \in StatsTeams, a \in StatsTeams, hg \in 0..MaxGoals, ag \in 0..MaxGoals}

NoResults ==
    /\ op = "none"
    /\ resolved = NotCalled
    /\ team_matches = <<>>
    /\ analysis = NotCalled
    /\ prev_analysis = NotCalled
    /\ stats = NotCalled
    /\ match_comment = NotCalled
    /\ prediction = NotCalled
    /\ swapped_comment = NotCalled
    /\ swapped_prediction = NotCalled

NoTeamPair ==
    /\ team1_stats = NotCalled
    /\ team2_stats = NotCalled

\* APIClient.__init__: an empty cache.
NewClient ==
    /\ clock = 0
    /\ cache = <<>>
    /\ call = NotCalled
    /\ cache_before = <<>>

Init ==
    /\ df \in SeqsUpTo(Records, MaxMatches)
    /\ team \in Queries
    /\ last_n \in 0..MaxN
    /\ exact_match \in BOOLEAN
    /\ NoTeamPair
    /\ NewClient
    /\ NoResults

StatsInit ==
    /\ df \in SeqsUpTo(StatsRecords, MaxMatches)
    /\ team \in StatsTeams
    /\ last_n = 0
    /\ exact_match = FALSE
    /\ NoTeamPair
    /\ NewClient
    /\ NoResults

\* _resolve_team_name(df, team)
ResolveTeamNameCall ==
    /\ op = "none"
    /\ resolved' \in ResolveTeamName(df, team)
    /\ op' = "resolve"
    /\ UNCHANGED <<df, team, last_n, exact_match, team_matches, analysis,
                   prev_analysis, stats, summary_vars,
                   client_vars>>

\* get_team_matches(df, team, last_n)
GetTeamMatchesCall ==
    /\ op = "none"
    /\ \E r \in ResolveTeamName(df, team) :
          /\ resolved' = r
          /\ team_matches' = GetTeamMatches(df, r, last_n)
    /\ op' = "get_team_matches"
    /\ UNCHANGED <<df, team, last_n, exact_match, analysis, prev_analysis, stats,
                   summary_vars, client_vars>>

\* analyze_team_from_df(df, team, last_n, exact_match); the request may be
\* made again with the same arguments.
AnalyzeTeamFromDfCall ==
    /\ op \in {"none", "analyze"}
    /\ \E r \in Resolved(df, team, exact_match) :
          analysis' = AnalyzeTeamFromDf(df, r, last_n)
    /\ prev_analysis' = analysis
    /\ op' = "analyze"
    /\ UNCHANGED <<df, team, last_n, exact_match, resolved, team_matches, stats,
                   summary_vars, client_vars>>

\* _calculate_stats(df, team)
CalculateStatsCall ==
    /\ op = "none"
    /\ stats' = CalculateStats(df, team)
    /\ op' = "stats"
    /\ UNCHANGED <<df, team, last_n, exact_match, resolved, team_matches,
                   analysis, prev_analysis, summary_vars,
                   client_vars>>

Next == ResolveTeamNameCall \/ GetTeamMatchesCall \/ AnalyzeTeamFromDfCall

Spec == Init /\ [][Next]_vars

StatsNext == CalculateStatsCall

StatsSpec == StatsInit /\ [][StatsNext]_vars

(***************************************************************************)
(* The comparison of two teams.  The MatchStats given to                   *)
(* generate_match_comment and predict_summary are those _calculate_stats   *)
(* returns: each sample is the aggregate of a window of `played` matches   *)
(* of which k ended with one score and the others with a second score.     *)
(*   Windows of 3 matches, under the small-sample size, take every mix;    *)
(*   windows of 4 and of 5, just under it and at it, take some of them;    *)
(*   the longer ones take the mixes that walk one rate across              *)
(*   its thresholds: goals scored and conceded per match over 10 matches,  *)
(*   the over 2.5 rate over 15, the both-teams-scored rate over 30.        *)
(***************************************************************************)
Goalless == <<0, 0>>
NarrowWins == <<<<1, 0>>, Goalless>>
OpenWins == <<<<2, 1>>, <<1, 0>>>>
ScoreDraws == <<<<1, 1>>, Goalless>>
BigWins == <<<<3, 0>>, Goalless>>
OpenLosses == <<<<1, 2>>, <<0, 1>>>>

Mixes == {NarrowWins, OpenWins, ScoreDraws, BigWins, OpenLosses}

Windows ==
    {<<0, NarrowWins>>}
    \cup {<<3, m>> : m \in Mixes}
    \cup {<<4, OpenLosses>>}
    \cup {<<5, m>> : m \in {OpenWins, ScoreDraws}}
    \cup {<<10, m>> : m \in {NarrowWins, OpenWins, OpenLosses}}
    \cup {<<15, BigWins>>}
    \cup {<<30, ScoreDraws>>}

\* The window of a team: k matches with the first score of the mix (the
\* team's goals first), then the others with the second score.
WindowDf(played, k, mix) ==
    [i \in 1..played |->
        IF i <= k THEN MatchRecord(Goz, Van, mix[1][1], mix[1][2])
                  ELSE MatchRecord(Goz, Van, mix[2][1], mix[2][2])]

SummaryStats ==
    UNION {{CalculateStats(WindowDf(w[1], k, w[2]), Goz) : k \in 0..w[1]} : w \in Windows}

SummaryInit ==
    /\ df = <<>>
    /\ team = Goz
    /\ last_n = 0
    /\ exact_match = FALSE
    /\ team1_stats \in SummaryStats
    /\ team2_stats \in SummaryStats
    /\ NewClient
    /\ NoResults

request_vars ==
    <<df, team, last_n, exact_match, resolved, team_matches, analysis,
      prev_analysis, stats, team1_stats, team2_stats, client_vars>>

\* generate_match_comment(team1_stats, team2_stats)
GenerateMatchCommentCall ==
    /\ op = "none"
    /\ match_comment' = GenerateMatchComment(team1_stats, team2_stats)
    /\ op' = "comment"
    /\ UNCHANGED <<request_vars, prediction, swapped_comment, swapped_prediction>>

\* generate_match_comment(team2_stats, team1_stats), after the call above
GenerateMatchCommentSwappedCall ==
    /\ op = "comment"
    /\ swapped_comment' = GenerateMatchComment(team2_stats, team1_stats)
    /\ op' = "comment_swapped"
    /\ UNCHANGED <<request_vars, match_comment, prediction, swapped_prediction>>

\* predict_summary(team1_stats, team2_stats, Goz, Van)
PredictSummaryCall ==
    /\ op = "none"
    /\ prediction' = PredictSummary(team1_stats, team2_stats, Goz, Van)
    /\ op' = "predict"
    /\ UNCHANGED <<request_vars, match_comment, swapped_comment, swapped_prediction>>

\* predict_summary(team2_stats, team1_stats, Van, Goz), after the call above
PredictSummarySwappedCall ==
    /\ op = "predict"
    /\ swapped_prediction' = PredictSummary(team2_stats, team1_stats, Van, Goz)
    /\ op' = "predict_swapped"
    /\ UNCHANGED <<request_vars, match_comment, prediction, swapped_comment>>

SummaryNext ==
    \/ GenerateMatchCommentCall
    \/ GenerateMatchCommentSwappedCall
    \/ PredictSummaryCall
    \/ PredictSummarySwappedCall

SummarySpec == SummaryInit /\ [][SummaryNext]_vars

(***************************************************************************)
(* The API client: calls of _request and of get_team_fixtures on one       *)
(* client, with time passing between the calls and during a network        *)
(* request.  The clock moves by half the cache duration, so that entries   *)
(* are looked up before, exactly at and after their expiry.                *)
(***************************************************************************)
MaxClock == 3
ClockStep == CACHE_TTL \div 2
Latencies == {0, ClockStep}

TeamId == 33
LeagueId == 39
Season == 2023

\* The endpoint and parameters of the calls: no parameters, and the
\* parameters of get_team_fixtures in two insertion orders.
ApiCalls ==
    {<<"leagues", None>>,
     <<"fixtures", FixturesParams(TeamId, LeagueId, Season)>>,
     <<"fixtures", Dict(<<<<"status", "FT">>, <<"season", Season>>,
                          <<"league", LeagueId>>, <<"team", TeamId>>>>)>>}

\* The fixture dates of a "response" member.
Payloads == {<<1, 2>>, <<2, 1>>}

Replies ==
    {Timeout, ConnectionError}
    \cup {Response(code, NotJson) : code \in {429, 500, 404, 200}}
    \cup {Response(200, JsonArray),
          Response(200, JsonObject(ErrorsDict(<<"Rate", "Limit">>), <<>>)),
          Response(200, JsonObject(ErrorsDict(<<"Invalid", "key">>), <<>>)),
          Response(200, JsonObject(Missing, <<1, 2>>)),
          Response(200, JsonObject(EmptyList, <<2, 1>>))}

ClientInit ==
    /\ df = <<>>
    /\ team = Goz
    /\ last_n = 0
    /\ exact_match = FALSE
    /\ NoTeamPair
    /\ NewClient
    /\ NoResults

analysis_vars ==
    <<df, team, last_n, exact_match, op, resolved, team_matches, analysis,
      prev_analysis, stats, summary_vars>>

\* What a call leaves in the state.
Called(fn, endpoint, params, use_cache, reply, r) ==
    /\ call' = [fn |-> fn, endpoint |-> endpoint, params |-> params,
                use_cache |-> use_cache, at |-> clock,
                reply |-> IF r.network THEN reply ELSE None,
                network |-> r.network, outcome |-> r.outcome]
    /\ cache_before' = cache
    /\ cache' = r.cache
    /\ clock' = r.clock

\* self._request(endpoint, params, use_cache)
RequestCall ==
    \E c \in ApiCalls, use_cache \in BOOLEAN, reply \in Replies, latency \in Latencies :
        LET r == Request(cache, clock, c[1], c[2], use_cache, reply, latency)
        IN  /\ r.clock <= MaxClock * ClockStep
            /\ Called("_request", c[1], c[2], use_cache, reply, r)
            /\ UNCHANGED analysis_vars

LastN == 1

\* self.get_team_fixtures(team_id, league_id, season, last_n)
GetTeamFixturesCall ==
    \E n \in {LastN}, reply \in Replies, latency \in Latencies :
        LET r == GetTeamFixtures(cache, clock, TeamId, LeagueId, Season, n, reply, latency)
        IN  /\ r.clock <= MaxClock * ClockStep
            /\ Called("get_team_fixtures", "fixtures",
                      FixturesParams(TeamId, LeagueId, Season), FALSE, reply, r)
            /\ UNCHANGED analysis_vars

\* Time passes between two calls.
Tick ==
    /\ clock + ClockStep <= MaxClock * ClockStep
    /\ clock' = clock + ClockStep
    /\ UNCHANGED <<analysis_vars, cache, call, cache_before>>

ClientNext == RequestCall \/ GetTeamFixturesCall \/ Tick

ClientSpec == ClientInit /\ [][ClientNext]_vars

(***************************************************************************)
(* Claims about _calculate_stats, checked under StatsSpec.                 *)
(***************************************************************************)
Rows == 1..Len(df)
Involves(row, t) == row.home_team = t \/ row.away_team = t
OwnGoals(row, t) == IF row.home_team = t THEN row.home_goals ELSE row.away_goals
OppGoals(row, t) == IF row.home_team = t THEN row.away_goals ELSE row.home_goals
TotalGoals(row) == row.home_goals + row.away_goals
StatsFields ==
    {"played", "wins", "draws", "losses", "form_points", "goals_for",
     "goals_against", "over_25_count", "btts_count"}

\* C2: the MatchStats of any match collection has wins + draws + losses = played
\* and played = the number of matches of the collection.
C2_ResultsPartitionPlayed ==
    op = "stats" =>
        /\ stats.wins + stats.draws + stats.losses = stats.played
        /\ stats.played = Len(df)

C2_Witness ==
    /\ op = "stats"
    /\ Len(df) = 2
    /\ stats.wins = 1
    /\ stats.draws = 1
    /\ \E i \in Rows : TotalGoals(df[i]) = 0

\* C7: over a subset in which every match involves the team, the MatchStats is
\* the fold from the team's side: goals_for is the sum of its own goals (home
\* goals where it is the home side, away goals otherwise), goals_against the sum
\* of the opponent's, wins / losses / draws count the matches with own goals
\* above / below / equal to the opponent's, and form_points = 3 * wins + draws.
C7_FoldFromTeamSide ==
    (op = "stats" /\ \A i \in Rows : Involves(df[i], team)) =>
        /\ stats.goals_for = SumSeq([i \in Rows |-> OwnGoals(df[i], team)])
        /\ stats.goals_against = SumSeq([i \in Rows |-> OppGoals(df[i], team)])
        /\ stats.wins =
             Cardinality({i \in Rows : OwnGoals(df[i], team) > OppGoals(df[i], team)})
        /\ stats.losses =
             Cardinality({i \in Rows : OwnGoals(df[i], team) < OppGoals(df[i], team)})
        /\ stats.draws =
             Cardinality({i \in Rows : OwnGoals(df[i], team) = OppGoals(df[i], team)})
        /\ stats.form_points = 3 * stats.wins + stats.draws

C7_Witness ==
    /\ op = "stats"
    /\ Len(df) = 2
    /\ \A i \in Rows : Involves(df[i], team)
    /\ df[1].home_team = team /\ df[1].away_team # team
    /\ df[2].away_team = team /\ df[2].home_team # team
    /\ df[2].home_goals = 0 /\ df[2].away_goals = 2
    /\ df[1].home_goals = 1 /\ df[1].away_goals = 1
    /\ stats.wins = 1 /\ stats.draws = 1 /\ stats.form_points = 4
    /\ stats.goals_for = 3 /\ stats.goals_against = 1

\* C8: over_25_count is the number of matches of the subset with at least 3
\* goals in total; a match with exactly 2 goals is not counted.
C8_OverCountIsThreeOrMore ==
    op = "stats" =>
        stats.over_25_count = Cardinality({i \in Rows : TotalGoals(df[i]) >= 3})

C8_Witness ==
    /\ op = "stats"
    /\ Len(df) = 2
    /\ TotalGoals(df[1]) = 2
    /\ TotalGoals(df[2]) = 3
    /\ stats.over_25_count = 1

\* C9: btts_count is the number of matches of the subset in which both sides
\* scored, and it is the same for whichever team the subset is scored for.
C9_BttsCountIgnoresTeam ==
    op = "stats" =>
        /\ stats.btts_count =
             Cardinality({i \in Rows : df[i].home_goals > 0 /\ df[i].away_goals > 0})
        /\ \A t \in StatsTeams \cup {Ordu} :
             CalculateStats(df, t).btts_count = stats.btts_count

C9_Witness ==
    /\ op = "stats"
    /\ Len(df) = 2
    /\ df[1].home_team # team /\ df[1].home_goals > 0 /\ df[1].away_goals > 0
    /\ df[2].home_team = team /\ df[2].home_goals > 0 /\ df[2].away_goals = 0
    /\ stats.btts_count = 1

\* C10: no field of a MatchStats is negative, and with played = 0 every other
\* field is 0.
C10_FieldsNonNegative ==
    op = "stats" =>
        /\ \A f \in StatsFields : stats[f] >= 0
        /\ stats.played = 0 => \A f \in StatsFields : stats[f] = 0

C10_Witness ==
    /\ op = "stats"
    /\ df = <<>>
    /\ stats.played = 0
    /\ stats.goals_against = 0

(***************************************************************************)
(* Claims about the requests, checked under Spec.                          *)
(***************************************************************************)
\* The names of the dataset that have the normalized form of the query.
NormalizedHits == {t \in AllTeams(df) : NormalizeTeamName(t) = NormalizeTeamName(team)}

\* The rows of the dataset that involve t, as row numbers.
RowsOf(t) == {i \in Rows : Involves(df[i], t)}

\* The n first of them.
FirstRowsOf(t, n) == {i \in RowsOf(t) : Cardinality({j \in RowsOf(t) : j < i}) < n}

Min(a, b) == IF a <= b THEN a ELSE b

\* s lists, in row order, the rows of the dataset numbered by I.
ListsRows(s, I) ==
    /\ Len(s) = Cardinality(I)
    /\ \A i \in I : s[Cardinality({j \in I : j < i}) + 1] = df[i]

\* C1: in every TeamAnalysis the home and the away stats add up, field by
\* field, to the total stats.
C1_HomePlusAwayIsTotal ==
    (op = "analyze" /\ analysis.kind = "TeamAnalysis") =>
        \A f \in StatsFields : analysis.home[f] + analysis.away[f] = analysis.total[f]

\* C3: when the query is equal to a name of the dataset, _resolve_team_name
\* returns that name, whatever other names have the same normalized form.
C3_ExactNameFirst ==
    (op = "resolve" /\ team \in AllTeams(df)) => resolved = Str(team)

\* C4 as stated: two analyze_team_from_df calls with the same arguments return
\* the same value.
C4_SameArgumentsSameResult ==
    (op = "analyze" /\ prev_analysis # NotCalled) => analysis = prev_analysis

\* C4 as amended: two calls with the same arguments return the same value when
\* exact_match is set or at most one name of the dataset has the normalized
\* form of the query.
C4_SameResultWhenOneCandidate ==
    (/\ op = "analyze"
     /\ prev_analysis # NotCalled
     /\ (exact_match \/ Cardinality(NormalizedHits) <= 1)) => analysis = prev_analysis

C4_Witness ==
    /\ op = "analyze"
    /\ prev_analysis # NotCalled
    /\ ~exact_match
    /\ NormalizedHits = {GozAscii}
    /\ team = gozLower
    /\ Cardinality(AllTeams(df)) = 2
    /\ analysis.kind = "TeamAnalysis"
    /\ analysis.team_name = GozAscii
    /\ analysis = prev_analysis

\* C5: the match filter returns the first min(N, available) rows of the dataset
\* that involve the resolved team, in the dataset's order; with N above the
\* number of such rows it returns all of them.  The same holds of the matches
\* of a TeamAnalysis.
C5_FirstNRowsOfTeam ==
    /\ (op = "get_team_matches" /\ resolved # None) =>
          /\ Len(team_matches) = Min(last_n, Cardinality(RowsOf(resolved.val)))
          /\ ListsRows(team_matches, FirstRowsOf(resolved.val, last_n))
    /\ (op = "analyze" /\ analysis.kind = "TeamAnalysis") =>
          /\ Len(analysis.matches_df) =
                Min(last_n, Cardinality(RowsOf(analysis.team_name)))
          /\ ListsRows(analysis.matches_df, FirstRowsOf(analysis.team_name, last_n))

C5_Witness ==
    /\ op = "get_team_matches"
    /\ resolved # None
    /\ Len(df) = 2
    /\ RowsOf(resolved.val) = {1, 2}
    /\ df[1] # df[2]
    /\ last_n = 1
    /\ team_matches = <<df[1]>>

\* C6: analyze_team_from_df returns None when the dataset is empty, when the
\* name is not resolved (no name of the dataset has the query's normalized
\* form; in exact mode, no name of the dataset is the query) or when the
\* filtered subset is empty; every TeamAnalysis returned has total.played >= 1.
C6_AbsentOrPopulated ==
    op = "analyze" =>
        /\ df = <<>> => analysis = None
        /\ (~exact_match /\ NormalizedHits = {}) => analysis = None
        /\ (exact_match /\ team \notin AllTeams(df)) => analysis = None
        /\ last_n = 0 => analysis = None
        /\ analysis # None =>
              /\ analysis.kind = "TeamAnalysis"
              /\ analysis.total.played >= 1
              /\ analysis.matches_df # <<>>

C6_Witness ==
    /\ op = "analyze"
    /\ exact_match
    /\ df # <<>>
    /\ team = gozLower
    /\ GozAscii \in AllTeams(df)
    /\ last_n > 0
    /\ analysis = None

BothPlayed == team1_stats.played > 0 /\ team2_stats.played > 0
CommentMade == op \in {"comment", "comment_swapped"}
PredictionMade == op \in {"predict", "predict_swapped"}

\* count / played >= num / den
RateAtLeast(count, played, num, den) == count * den >= num * played

RuleStatements ==
    <<"Gollu mac egilimi", "Iki takim da gol bulabilir", "Formda takim avantajli",
      "Over egilimi">>

RuleFires(i) ==
    LET a == team1_stats
        b == team2_stats
    IN  CASE i = 1 -> /\ RateAtLeast(a.goals_for, a.played, 15, 10)
                      /\ RateAtLeast(b.goals_for, b.played, 15, 10)
          [] i = 2 -> /\ RateAtLeast(a.btts_count, a.played, 60, 100)
                      /\ RateAtLeast(b.btts_count, b.played, 60, 100)
          [] i = 3 -> \/ a.form_points - b.form_points >= 6
                      \/ b.form_points - a.form_points >= 6
          [] i = 4 -> /\ RateAtLeast(a.over_25_count, a.played, 50, 100)
                      /\ RateAtLeast(b.over_25_count, b.played, 50, 100)

FiredRules == SelectSeq(<<1, 2, 3, 4>>, RuleFires)

\* The statements of a comment "s1. s2. ... sn."
StatementsOf(comment) == [i \in 1..(Len(comment) \div 2) |-> comment[2 * i - 1]]

Markets == {"btts", "over25", "gollu_mac"}
NoDataGerekce == [text |-> "Yeterli veri yok", args |-> <<>>]

\* C12: when either team's played count is 0, generate_match_comment returns
\* the "insufficient data" message alone, and predict_summary returns, without
\* failing on a division by zero, the level "-" with the "insufficient data"
\* justification for each of its four markets.
C12_NoMatchesShortCircuit ==
    ~BothPlayed =>
        /\ CommentMade => match_comment = <<"Yeterli veri yok.">>
        /\ PredictionMade =>
              /\ prediction # ZeroDivisionError
              /\ \A m \in Markets :
                    prediction[m].level = "-" /\ prediction[m].gerekce = NoDataGerekce
              /\ prediction.egilim_1x2.sonuc = <<"-">>
              /\ prediction.egilim_1x2.gerekce = NoDataGerekce

\* The second team has no match, the first has thirty.
C12_Witness ==
    /\ op = "predict"
    /\ team1_stats.played = 30 /\ team1_stats.btts_count = 30
    /\ team2_stats.played = 0
    /\ prediction.over25.level = "-"

FormDifference == team1_stats.form_points - team2_stats.form_points

\* C13: for two teams with played > 0 the outcome lean names team 1 when
\* form_points(1) - form_points(2) >= 6, team 2 when the difference is <= -6,
\* and is "balanced" otherwise; a difference of exactly 6 or -6 gives the lead
\* to the team with more form points.
C13_LeanByFormDifference ==
    (PredictionMade /\ BothPlayed) =>
        /\ FormDifference >= 6 => prediction.egilim_1x2.sonuc = Goz
        /\ FormDifference <= -6 => prediction.egilim_1x2.sonuc = Van
        /\ (FormDifference > -6 /\ FormDifference < 6) =>
              prediction.egilim_1x2.sonuc = <<"Dengeli">>

\* Team 2 is exactly 6 points ahead.
C13_Witness ==
    /\ op = "predict"
    /\ BothPlayed
    /\ FormDifference = -6
    /\ prediction.egilim_1x2.sonuc = Van

SmallSampleFlag == "Orneklem kucuk, veri sinirli"
FragileFlag == "Savunmalar kirilgan"
EitherBelowFive == team1_stats.played < 5 \/ team2_stats.played < 5

\* A risk note (None or a str of parts) contains the flag.
NoteContains(note, flag) ==
    note # None /\ \E i \in 1..Len(note.val) : note.val[i] = flag

\* C14 as stated: whenever either team has a played count below 5, the risk
\* note contains the "small sample size" flag, whatever the other statistics.
C14_SmallSampleAlwaysFlagged ==
    (PredictionMade /\ EitherBelowFive) =>
        NoteContains(prediction.risk_notu, SmallSampleFlag)

\* C14 amended: whenever both teams have played > 0 and either has a played
\* count below 5, the risk note contains the "small sample size" flag, whatever
\* the other statistics; when a team has played 0 the risk note is the
\* "insufficient data" text of the placeholder summary.
C14_SmallSampleFlaggedWhenBothPlayed ==
    PredictionMade =>
        /\ (BothPlayed /\ EitherBelowFive) =>
              NoteContains(prediction.risk_notu, SmallSampleFlag)
        /\ ~BothPlayed => prediction.risk_notu = Str(<<"Veri yetersiz.">>)

\* One team has played 4 matches, the other 30, and the defenses are not both
\* fragile.
C14_Witness ==
    /\ op = "predict"
    /\ team1_stats.played = 30
    /\ team2_stats.played = 4
    /\ prediction.risk_notu = Str(<<SmallSampleFlag>>)

\* Both teams concede at least 1.3 goals a match.
BothConcedeAlot ==
    /\ BothPlayed
    /\ RateAtLeast(team1_stats.goals_against, team1_stats.played, 13, 10)
    /\ RateAtLeast(team2_stats.goals_against, team2_stats.played, 13, 10)

\* C15: the two risk conditions are evaluated independently: the "fragile
\* defenses" flag is present if and only if both teams' goals_against / played
\* is >= 1.3; when both conditions hold the note is the two flags joined,
\* fragile defenses first; the note is None if and only if neither holds.
C15_RiskFlagsIndependent ==
    PredictionMade =>
        /\ NoteContains(prediction.risk_notu, FragileFlag) <=> BothConcedeAlot
        /\ BothPlayed =>
              (NoteContains(prediction.risk_notu, SmallSampleFlag) <=> EitherBelowFive)
        /\ (BothConcedeAlot /\ EitherBelowFive) =>
              prediction.risk_notu = Str(<<FragileFlag, ". ", SmallSampleFlag>>)
        /\ (BothConcedeAlot /\ ~EitherBelowFive) =>
              prediction.risk_notu = Str(<<FragileFlag>>)
        /\ (prediction.risk_notu = None) <=> (~BothConcedeAlot /\ ~EitherBelowFive)

\* A team of 3 matches and a team that conceded exactly 13 goals in 10: both
\* flags, joined.
C15_Witness ==
    /\ op = "predict"
    /\ team1_stats.played = 3 /\ team1_stats.goals_against = 4
    /\ team2_stats.played = 10 /\ team2_stats.goals_against = 13
    /\ prediction.risk_notu = Str(<<FragileFlag, ". ", SmallSampleFlag>>)

\* c1 / p1 + c2 / p2 >= num / den, on the counts of the two teams.
RateSumAtLeast(c1, p1, c2, p2, num, den) ==
    (c1 * p2 + c2 * p1) * den >= num * p1 * p2

GoalsSumAtLeast(num, den) ==
    RateSumAtLeast(team1_stats.goals_for, team1_stats.played,
                   team2_stats.goals_for, team2_stats.played, num, den)

\* C16: for two teams with played > 0 the high-scoring-match level is High when
\* goals_for1 / played1 + goals_for2 / played2 >= 2.8, Medium when the sum is
\* >= 2.2 and < 2.8, and Low otherwise, the comparison being exact on the
\* integer counts (3 goals in 10 matches and 19 goals in 10 matches sum to
\* exactly 2.2 and give Medium).
C16_GolluLevelExactOnCounts ==
    (PredictionMade /\ BothPlayed) =>
        prediction.gollu_mac.level =
            IF GoalsSumAtLeast(28, 10) THEN "Yuksek"
            ELSE IF GoalsSumAtLeast(22, 10) THEN "Orta"
            ELSE "Dusuk"

\* The average of the two teams' btts rates is at least pct per cent.
BttsAverageAtLeast(pct) ==
    RateSumAtLeast(team1_stats.btts_count, team1_stats.played,
                   team2_stats.btts_count, team2_stats.played, 2 * pct, 100)

\* C17: for two teams with played > 0 the both-teams-score level is High if and
\* only if both teams' btts rates are >= 60%; otherwise Medium if and only if
\* the average of the two rates is >= 45%; otherwise Low.
C17_BttsLevelByRates ==
    (PredictionMade /\ BothPlayed) =>
        prediction.btts.level =
            IF /\ RateAtLeast(team1_stats.btts_count, team1_stats.played, 60, 100)
               /\ RateAtLeast(team2_stats.btts_count, team2_stats.played, 60, 100)
            THEN "Yuksek"
            ELSE IF BttsAverageAtLeast(45) THEN "Orta"
            ELSE "Dusuk"

\* The average of the two teams' over 2.5 rates is at least pct per cent.
OverAverageAtLeast(pct) ==
    RateSumAtLeast(team1_stats.over_25_count, team1_stats.played,
                   team2_stats.over_25_count, team2_stats.played, 2 * pct, 100)

\* C18: for two teams with played > 0 the over 2.5 level is High if and only if
\* the average of the two teams' over rates is >= 55%, Medium if and only if it
\* is >= 40% and < 55%, and Low otherwise.
C18_OverLevelByAverage ==
    (PredictionMade /\ BothPlayed) =>
        prediction.over25.level =
            IF OverAverageAtLeast(55) THEN "Yuksek"
            ELSE IF OverAverageAtLeast(40) THEN "Orta"
            ELSE "Dusuk"

\* C20: both functions are symmetric under swapping the two teams: the comment
\* of (a, b) equals the comment of (b, a); the btts, over25 and gollu_mac levels
\* and the risk note of predict_summary(a, b, A, B) equal those of
\* predict_summary(b, a, B, A), and the outcome lean names the same team, or is
\* balanced, in both orders.
C20_SymmetricUnderSwap ==
    /\ op = "comment_swapped" => swapped_comment = match_comment
    /\ op = "predict_swapped" =>
          /\ \A m \in Markets : swapped_prediction[m].level = prediction[m].level
          /\ swapped_prediction.risk_notu = prediction.risk_notu
          /\ swapped_prediction.egilim_1x2.sonuc = prediction.egilim_1x2.sonuc

\* Two different teams, the first one 6 points or more ahead, each called in
\* both orders.
C20_Witness ==
    /\ op = "predict_swapped"
    /\ team1_stats.played = 10 /\ team2_stats.played = 3
    /\ FormDifference >= 6
    /\ prediction.egilim_1x2.sonuc = Goz
    /\ swapped_prediction.egilim_1x2.sonuc = Goz
    /\ prediction.gollu_mac.level = "Yuksek"
    /\ swapped_prediction.risk_notu = Str(<<SmallSampleFlag>>)

(***************************************************************************)
(* Claims about APIClient, checked under ClientSpec.                       *)
(***************************************************************************)
\* The parameters of a dict as a mapping: the set of its items.
ItemSet(items) == {items[i] : i \in 1..Len(items)}

\* The cache key k belongs to the endpoint and parameters of the latest call.
KeyOfCall(k) ==
    /\ k[1] = call.endpoint
    /\ ItemSet(k[3]) = ItemSet(IF call.params = None THEN <<>> ELSE call.params.items)

\* The latest call got HTTP 200 with a JSON object whose errors are empty.
CompletedSuccessfully ==
    /\ call.network
    /\ call.reply.kind = "Response"
    /\ call.reply.status_code = 200
    /\ call.reply.body.kind = "dict"
    /\ call.reply.body.errors \in {Missing, EmptyList}

\* C21: after any sequence of calls, a call returns a stored response without
\* a network request only if it had use_cache=True and an entry for the same
\* endpoint and parameters was stored less than CACHE_TTL (60) seconds before
\* it; the cache gains or replaces an entry, that of the call's endpoint and
\* parameters, only when a use_cache=True request completes successfully
\* (HTTP 200, valid JSON, empty errors); a call that raises APIError or has
\* use_cache=False leaves the cache unchanged.
C21_CacheServesFreshAndStoresSuccess ==
    call # NotCalled =>
        /\ ~call.network =>
              /\ call.use_cache
              /\ \E k \in DOMAIN cache_before :
                    /\ KeyOfCall(k)
                    /\ call.at - cache_before[k].ts < 60
                    /\ call.outcome = Return(cache_before[k].data)
        /\ cache # cache_before =>
              /\ call.use_cache
              /\ CompletedSuccessfully
              /\ DOMAIN cache_before \subseteq DOMAIN cache
              /\ \A k \in DOMAIN cache :
                    (k \notin DOMAIN cache_before \/ cache[k] # cache_before[k]) =>
                        /\ KeyOfCall(k)
                        /\ cache[k].data = call.outcome.value
        /\ (call.outcome.kind = "APIError" \/ ~call.use_cache) => cache = cache_before

\* An entry stored 30 seconds before is served, to a call whose parameters
\* were given in another order than those of the entry's key, while another
\* entry of the cache has expired.
C21_Witness ==
    /\ call # NotCalled
    /\ call.use_cache /\ ~call.network
    /\ call.endpoint = "fixtures"
    /\ call.params.items[1][1] = "status"
    /\ \E k \in DOMAIN cache :
          KeyOfCall(k) /\ call.at - cache[k].ts = 30 /\ call.outcome.value = cache[k].data
    /\ \E k \in DOMAIN cache : ~KeyOfCall(k) /\ call.at - cache[k].ts >= 60

====
